---- MODULE Spec2Model ----
(***************************************************************************)
(* react-tates: hook factories binding one property of a tates store to    *)
(* the local state of a React component.                                   *)
(*                                                                         *)
(* One factory is built (kind, action, initialValue); component instances  *)
(* built from it are mounted, re-rendered with new options, notified by    *)
(* the store and unmounted.  A render runs the hook body; the effect it    *)
(* registers runs afterwards (cleanup of the previous effect first).       *)
(***************************************************************************)
EXTENDS Integers, Sequences, FiniteSets, TLC

\* ---------------------------------------------------------------- bounds
MaxSubs == 2        \* subscribe calls the store receives

\* ---------------------------------------------------------------- values
UNDEFINED == "undefined"
NULL == "null"
NONE == "none"                       \* nothing yet (no render, no delivery)

Instances == {"c1", "c2"}                   \* component instances
Kinds == {"plain", "curried", "action", "keyed", "keyedLegacy", "wrapped"}
Values == {UNDEFINED, NULL, "v1", "v2"}      \* what the store can deliver
InitialValues == {UNDEFINED, NULL, "fb"}     \* initialValue of the factory
Keys == {UNDEFINED, NULL, "k1", "k2"}        \* key / param option
Actions == {"function", "undefined", "notCallable"}
RawInvoke == {UNDEFINED, "true", "false"}    \* invokeAction option
RawArgs == { [isArray |-> FALSE, elems |-> <<>>],
             [isArray |-> TRUE, elems |-> <<>>],
             [isArray |-> TRUE, elems |-> <<"a1">>],
             [isArray |-> TRUE, elems |-> <<"a2">>] }

property == "product"
otherProperty == "cart"        \* another property, for the curried plain form

\* lodash predicates
isUndefined(x) == x = UNDEFINED
isNil(x) == x = UNDEFINED \/ x = NULL
isFunction(a) == a = "function"

VARIABLES
  kind,             \* which factory built the hook
  action,           \* the factory's action option
  actionThrows,     \* the configured action throws synchronously when called
  actionRejects,    \* the configured action returns a promise that rejects
  actionWrites,     \* when the configured action writes its result to the
                    \* store: "sync" before it returns, "async" when its
                    \* promise resolves, "never" (the store's writes are
                    \* then the environment's)
  inflight,         \* calls of an "async" action that have not resolved yet
                    \* (path and arguments; equal calls count once)
  initialValue,     \* the factory's initialValue option
  initialValueCopy, \* the factory closure's fallback slot
  instances,        \* the component instances the application renders
  phase,            \* per instance: "unmounted", "mounted", "gone"
  props,            \* per instance: key, invokeAction, actionArr of the last render
  state,            \* per instance: the useState cell
  returned,         \* per instance: what the last render returned
  effectPending,    \* per instance: the last render scheduled the effect
  stateUpdated,     \* per instance: setState was called since the last render
  cleanup,          \* per instance: cleanup of the effect that ran last
  subs,             \* the store's subscriptions, by handle: path, owner, unsubs
  trace,            \* per instance: calls made since the last render (effect run, unmount)
  actionCalls,      \* per instance: invocations of the configured action
  lastDelivered,    \* per instance: value passed to the last callback call
  sawValue,         \* per instance: a non-nil value was delivered
  lateWrite         \* "yes" when, since the instance's last render, effect
                    \* run or unmount, the store wrote a path that only
                    \* unsubscribed handles were on; NONE when not recorded

factoryVars == <<kind, action, actionThrows, actionRejects, actionWrites, initialValue,
                 instances>>
vars == <<kind, action, actionThrows, actionRejects, actionWrites, inflight,
          initialValue, initialValueCopy, instances, phase, props, state, returned, effectPending, stateUpdated,
          cleanup, subs, trace, actionCalls, lastDelivered, sawValue, lateWrite>>

\* ------------------------------------------------------------ the hook body

\* (mutant) const actionFn = action, without the isFunction test
actionFnUnsubstituted == IF isFunction(action) THEN "action" ELSE action

\* actionFn = isFunction(action) ? action : noop
actionFn == IF isFunction(action) THEN "action" ELSE "noop"

\* (mutant) the effect awaits the action: a rejection raises like a throw
RaisesOnRejection(f) ==
  CASE f = "action" -> actionThrows \/ actionRejects
    [] f = "noop"   -> FALSE
    [] OTHER        -> TRUE

\* whether the call `void f(...actionArr)` raises into the effect: the
\* configured action when it throws synchronously (a promise it returns is
\* dropped by `void`, rejected or not), never noop, and always a value that
\* is not callable (TypeError)
Raises(f) ==
  CASE f = "action" -> actionThrows
    [] f = "noop"   -> FALSE
    [] OTHER        -> TRUE

\* invokeAction = true (default parameter: applies to undefined only)
InvokeActionOf(raw) == IF isUndefined(raw) THEN TRUE ELSE raw = "true"

\* actionArr = isArray(actionArgs) ? actionArgs : []
ActionArrOf(raw) == IF raw.isArray THEN raw.elems ELSE <<>>

\* the options a render of this kind of hook destructures
PropsOf(k, rawInvoke, rawArgs) ==
  CASE kind = "plain"   -> [key |-> UNDEFINED, invokeAction |-> TRUE, actionArr |-> <<>>]
    [] kind \in {"curried", "keyedLegacy", "wrapped"}
                        -> [key |-> k, invokeAction |-> TRUE, actionArr |-> <<>>]
    [] kind = "action"  -> [key |-> UNDEFINED,
                            invokeAction |-> InvokeActionOf(rawInvoke),
                            actionArr |-> ActionArrOf(rawArgs)]
    [] kind = "keyed"   -> [key |-> k,
                            invokeAction |-> InvokeActionOf(rawInvoke),
                            actionArr |-> ActionArrOf(rawArgs)]

\* (mutant) actionArgs are left out of the dependency list
DepsWithoutArgs(p) ==
  CASE kind \in {"plain", "curried"} -> <<>>
    [] kind \in {"keyedLegacy", "wrapped"} -> <<p.key>>
    [] kind = "action"  -> <<IF p.invokeAction THEN "true" ELSE "false">>
    [] kind = "keyed"   -> <<p.key, IF p.invokeAction THEN "true" ELSE "false">>

\* (mutant) the curried plain form lists its property as a dependency
DepsCurriedOnProperty(p) ==
  CASE kind = "plain" -> <<>>
    [] kind = "curried" -> <<p.key>>
    [] OTHER -> DepsWithoutArgs(p) \o (IF kind \in {"action", "keyed"} THEN p.actionArr ELSE <<>>)

\* the dependency list of the hook's useEffect
Deps(p) ==
  CASE kind \in {"plain", "curried"} -> <<>>
    [] kind \in {"keyedLegacy", "wrapped"} -> <<p.key>>
    [] kind = "action"  -> <<IF p.invokeAction THEN "true" ELSE "false">> \o p.actionArr
    [] kind = "keyed"   -> <<p.key, IF p.invokeAction THEN "true" ELSE "false">> \o p.actionArr

Min(a, b) == IF a < b THEN a ELSE b

\* (mutant) useEffect without a dependency list: the effect is scheduled
\* by every render
DepsEqualNever(prev, next) == FALSE

\* React compares the lists element by element, by identity, over their
\* common length
DepsEqual(prev, next) ==
  \A n \in 1..Min(Len(prev), Len(next)) : prev[n] = next[n]

\* (mutant) the action-bound hook subscribes to a path of its own for each
\* first argument, as the keyed hook does for each key
PathOfPerArgs(p) ==
  CASE kind \in {"keyed", "keyedLegacy"} -> property \o "." \o p.key
    [] kind = "curried" -> p.key
    [] kind = "action" /\ Len(p.actionArr) > 0 -> property \o "." \o p.actionArr[1]
    [] OTHER -> property

\* the path the effect subscribes to
PathOf(p) ==
  CASE kind \in {"keyed", "keyedLegacy"} -> property \o "." \o p.key
    [] kind = "curried" -> p.key
    [] OTHER -> property

\* (mutant) the callback leaves the local state alone on undefined
CallbackKeepsOnUndefined(st, value) == IF isUndefined(value) THEN st ELSE value

\* the subscription callback: what it passes to setState (st is the local
\* state before the call: the callback does not read it)
Callback(st, value) == IF isUndefined(value) THEN NULL ELSE value

\* (mutant) the slot is set to null without the isUndefined test
NormalisedAlways(slot) == NULL

\* the slot after the `if (isUndefined(initialValueCopy))` normalisation
Normalised(slot) == IF isUndefined(slot) THEN NULL ELSE slot

\* plain and action-bound hooks normalise the slot while rendering
SlotAfterRender(slot) ==
  IF kind \in {"plain", "action"} THEN Normalised(slot) ELSE slot

\* the keyed hook normalises it when its effect runs
SlotAfterEffect(slot) == IF kind = "keyed" THEN Normalised(slot) ELSE slot

\* (mutant) useState() without an initial value
InitialStateUndefined(slot) == UNDEFINED

\* useState(...): the initial local state
InitialState(slot) == IF kind \in {"plain", "action"} THEN slot ELSE NULL

\* (mutant) the fallback, when there is one, wins over the local state
HookReturnFallbackFirst(st, slot) ==
  IF kind \in {"keyedLegacy", "wrapped"} THEN st
  ELSE IF ~isNil(slot) THEN slot ELSE st

\* (mutant) no fallback substitution
HookReturnNoFallback(st, slot) == st

\* the value the hook returns
HookReturn(st, slot) ==
  IF kind \in {"keyedLegacy", "wrapped"} THEN st
  ELSE IF isNil(st) /\ ~isNil(slot) THEN slot ELSE st

\* ------------------------------------------------------------------ store

Event(op, path, args, h) == [op |-> op, path |-> path, args |-> args, handle |-> h]

Live(h) == subs[h].unsubs = 0
LiveHandles(i) == {h \in 1..Len(subs) : subs[h].owner = i /\ Live(h)}

\* a render, effect run or unmount starts the record of late writes afresh
Forgotten(lw) == IF lw = NONE THEN NONE ELSE "no"

\* calling the handle tate.subscribe returned
Unsubscribed(s, h) == [s EXCEPT ![h].unsubs = @ + 1]

\* tate.subscribe(callback, path)
Subscribed(s, i, path) == Append(s, [path |-> path, owner |-> i, unsubs |-> 0])

\* the call React makes for the previous effect's cleanup (c: -1 no effect
\* has run, 0 the effect returned noop, otherwise the handle it returned)
CleanupEvents(c) ==
  IF c > 0 THEN <<Event("unsubscribe", subs[c].path, <<>>, c)>>
  ELSE IF c = 0 THEN <<Event("noop", "", <<>>, 0)>> ELSE <<>>

\* (mutant) the previous effect's cleanup is not called
AfterCleanupSkipped(c) == subs

\* (mutant) unsubscribing removes every subscription of the handle's path
AfterCleanupByPath(c) ==
  IF c > 0
  THEN [h \in 1..Len(subs) |->
          IF subs[h].path = subs[c].path /\ subs[h].unsubs = 0
          THEN [subs[h] EXCEPT !.unsubs = 1] ELSE subs[h]]
  ELSE subs

\* the store after that call
AfterCleanup(c) == IF c > 0 THEN Unsubscribed(subs, c) ELSE subs

\* ------------------------------------------------------------------- Init

InitHooks ==
  /\ kind \in Kinds
  /\ action \in IF kind \in {"action", "keyed"} THEN Actions
                ELSE IF kind \in {"keyedLegacy", "wrapped"} THEN {"function"}
                ELSE {"undefined"}
  /\ initialValue \in IF kind \in {"curried", "keyedLegacy", "wrapped"} THEN {UNDEFINED}
                      ELSE InitialValues
  /\ initialValueCopy = initialValue
  /\ phase = [i \in Instances |-> "unmounted"]
  /\ props = [i \in Instances |-> [key |-> UNDEFINED, invokeAction |-> TRUE, actionArr |-> <<>>]]
  /\ state = [i \in Instances |-> NULL]
  /\ returned = [i \in Instances |-> NONE]
  /\ effectPending = [i \in Instances |-> FALSE]
  /\ stateUpdated = [i \in Instances |-> FALSE]
  /\ cleanup = [i \in Instances |-> -1]
  /\ subs = <<>>
  /\ trace = [i \in Instances |-> <<>>]
  /\ actionCalls = [i \in Instances |-> 0]
  /\ lastDelivered = [i \in Instances |-> NONE]
  /\ sawValue = [i \in Instances |-> FALSE]
  /\ inflight = {}

\* the application renders one component instance that calls the hook
InitFactory == InitHooks /\ instances = {"c1"}

\* the configured action returns to the effect that called it (a promise it
\* returns is dropped by `void`, whether it resolves or rejects)
Init ==
  /\ InitFactory
  /\ actionThrows = FALSE /\ actionRejects = FALSE
  /\ actionWrites = "never"
  /\ lateWrite = NONE

\* the same, for a callable action, with the store's writes to paths nobody
\* is subscribed to any more on record
InitLate ==
  /\ InitFactory
  /\ kind \in {"action", "keyed"} => isFunction(action)
  /\ actionThrows = FALSE /\ actionRejects = FALSE
  /\ actionWrites = "never"
  /\ lateWrite = "no"

\* the configured action may be one that throws synchronously, or one that
\* returns a promise that rejects
InitFailing ==
  /\ InitFactory
  /\ actionThrows \in BOOLEAN /\ actionRejects \in BOOLEAN
  /\ ~(actionThrows /\ actionRejects)
  /\ actionThrows \/ actionRejects
  /\ isFunction(action)
  /\ actionWrites = "never"
  /\ lateWrite = NONE

\* the configured action is callable and writes its result to the path the
\* hook subscribes to before it returns (an action that sets the store
\* synchronously)
InitSync ==
  /\ InitFactory
  /\ kind \in {"action", "keyed", "keyedLegacy", "wrapped"}
  /\ isFunction(action)
  /\ actionThrows = FALSE /\ actionRejects = FALSE
  /\ actionWrites = "sync"
  /\ lateWrite = NONE

\* the configured action of an action-bound hook is asynchronous: it writes
\* its result to property when its promise resolves
InitAsync ==
  /\ InitFactory
  /\ kind = "action"
  /\ isFunction(action)
  /\ actionThrows = FALSE /\ actionRejects = FALSE
  /\ actionWrites = "async"
  /\ lateWrite = NONE

\* (mutant) the action call is not gated by invokeAction
CallsActionUngated(p) ==
  CASE kind \in {"plain", "curried"} -> FALSE
    [] kind = "wrapped" -> TRUE
    [] kind = "action"  -> TRUE
    [] kind \in {"keyed", "keyedLegacy"} -> ~isNil(p.key)

\* (mutant) the keyed hook calls the action before it tests the key
CallsActionBeforeKeyGuard(p) ==
  CASE kind \in {"plain", "curried"} -> FALSE
    [] kind = "wrapped" -> TRUE
    [] kind = "action"  -> p.invokeAction
    [] kind \in {"keyed", "keyedLegacy"} -> p.invokeAction

\* (mutant) the wrapped hook guards the invoker on its param, as the keyed
\* hook does on its key
CallsActionWrappedGuarded(p) ==
  CASE kind \in {"plain", "curried"} -> FALSE
    [] kind = "wrapped" -> ~isNil(p.key)
    [] kind = "action"  -> p.invokeAction
    [] kind \in {"keyed", "keyedLegacy"} -> ~isNil(p.key) /\ p.invokeAction

\* the effect body, after the previous cleanup: whether it calls the action,
\* and whether it goes on to subscribe
CallsAction(p) ==
  CASE kind \in {"plain", "curried"} -> FALSE
    [] kind = "wrapped" -> TRUE
    [] kind = "action"  -> p.invokeAction
    [] kind \in {"keyed", "keyedLegacy"} -> ~isNil(p.key) /\ p.invokeAction

\* (mutant) the key is passed to the action, before actionArgs
CallArgsWithKey(p) == <<p.key>> \o p.actionArr

\* the arguments of that call
CallArgs(p) == IF kind \in {"keyedLegacy", "wrapped"} THEN <<p.key>> ELSE p.actionArr

\* (mutant) no guard on the key
ReachesSubscribeUnguarded(p) == TRUE

\* (mutant) the wrapped hook returns noop on an absent param
ReachesSubscribeWrappedGuarded(p) ==
  IF kind \in {"keyed", "keyedLegacy", "wrapped"} THEN ~isNil(p.key) ELSE TRUE

ReachesSubscribe(p) ==
  IF kind \in {"keyed", "keyedLegacy"} THEN ~isNil(p.key) ELSE TRUE

ActionEvents(p) ==
  IF CallsAction(p) THEN <<Event(actionFn, "", CallArgs(p), 0)>> ELSE <<>>

SubscribeEvents(p, h, subscribes) ==
  IF subscribes THEN <<Event("subscribe", PathOf(p), <<>>, h)>> ELSE <<>>

\* (mutant) subscribes first, then calls the action
EffectBodySubscribesFirst(p, h, subscribes) ==
  SubscribeEvents(p, h, subscribes) \o ActionEvents(p)

\* the calls of the effect body, in order: the action, then tate.subscribe
EffectBody(p, h, subscribes) == ActionEvents(p) \o SubscribeEvents(p, h, subscribes)

\* (mutant) the effect does not return the handle
EffectCleanupNoop(h, subscribes) == 0

\* what the effect returns as its cleanup: the handle, or noop
EffectCleanup(h, subscribes) == IF subscribes THEN h ELSE 0

\* ---------------------------------------------------------------- actions

\* the subscribe calls explored: MaxSubs for one instance, one more for
\* each further instance
SubsCap == MaxSubs + Cardinality(instances) - 1

\* first render of a component instance: the hook body runs, useState
\* allocates the local state, the effect is scheduled
Mount(i, p) ==
  LET slot == SlotAfterRender(initialValueCopy)
      st == InitialState(slot)
  IN /\ phase[i] = "unmounted"
     /\ ReachesSubscribe(p) => Len(subs) < SubsCap
     /\ phase' = [phase EXCEPT ![i] = "mounted"]
     /\ initialValueCopy' = slot
     /\ props' = [props EXCEPT ![i] = p]
     /\ state' = [state EXCEPT ![i] = st]
     /\ returned' = [returned EXCEPT ![i] = HookReturn(st, slot)]
     /\ effectPending' = [effectPending EXCEPT ![i] = TRUE]
     /\ stateUpdated' = [stateUpdated EXCEPT ![i] = FALSE]
     /\ lateWrite' = Forgotten(lateWrite)
     /\ UNCHANGED <<factoryVars, cleanup, subs, trace, actionCalls,
                    lastDelivered, sawValue, inflight>>

\* a later render: the hook body runs again; the effect is scheduled only
\* when its dependency list changed
Rerender(i, p) ==
  LET slot == SlotAfterRender(initialValueCopy)
  IN /\ phase[i] = "mounted"
     /\ ~effectPending[i]
     /\ (~DepsEqual(Deps(props[i]), Deps(p)) /\ ReachesSubscribe(p)) => Len(subs) < SubsCap
     /\ initialValueCopy' = slot
     /\ props' = [props EXCEPT ![i] = p]
     /\ returned' = [returned EXCEPT ![i] = HookReturn(state[i], slot)]
     /\ effectPending' = [effectPending EXCEPT ![i] = ~DepsEqual(Deps(props[i]), Deps(p))]
     /\ stateUpdated' = [stateUpdated EXCEPT ![i] = FALSE]
     /\ trace' = [trace EXCEPT ![i] = <<>>]
     /\ lateWrite' = Forgotten(lateWrite)
     /\ UNCHANGED <<factoryVars, phase, state, cleanup, subs,
                    actionCalls, lastDelivered, sawValue, inflight>>

\* the value the configured action computes from its arguments and writes
\* to the store (never nil)
ResultOf(args) == IF args \in {<<"a2">>, <<"k2">>} THEN "v2" ELSE "v1"

\* the effect body calls tate.subscribe before it calls the action
SubscribesFirst(p, h, subscribes) ==
  LET body == EffectBody(p, h, subscribes)
  IN \E m, n \in 1..Len(body) :
        m < n /\ body[m].op = "subscribe" /\ body[n].op = actionFn

\* the instances whose callback a write the action makes before it returns
\* reaches: those with a live handle on the path when the action is called
\* (s: the store after the previous cleanup), this one included only if
\* its effect has subscribed already
SyncReached(i, p, s, h, subscribes) ==
  {j \in Instances : \E g \in 1..Len(s) :
      s[g].owner = j /\ s[g].unsubs = 0 /\ s[g].path = PathOf(p)}
  \cup (IF subscribes /\ SubscribesFirst(p, h, subscribes) THEN {i} ELSE {})

\* (mutant) the effect resets the local state: setState(null)
StateAfterEffectReset(st) == NULL

\* the effect body and the cleanup make no setState call of their own: the
\* local state they leave
StateAfterEffect(st) == st

\* the scheduled effect runs: cleanup of the previous effect, then the body
RunEffect(i) ==
  LET p == props[i]
      cleaned == AfterCleanup(cleanup[i])
      called == CallsAction(p)
      thrown == called /\ Raises(actionFn)
      subscribes == ReachesSubscribe(p) /\ ~thrown
      h == Len(subs) + 1
      ran == called /\ actionFn = "action" /\ ~thrown
      reached == IF ran /\ actionWrites = "sync"
                 THEN SyncReached(i, p, cleaned, h, subscribes) ELSE {}
      result == ResultOf(CallArgs(p))
  IN /\ phase[i] = "mounted"
     /\ effectPending[i]
     /\ effectPending' = [effectPending EXCEPT ![i] = FALSE]
     /\ initialValueCopy' = SlotAfterEffect(initialValueCopy)
     /\ actionCalls' = [actionCalls EXCEPT ![i] =
                          IF called /\ actionFn = "action" THEN @ + 1 ELSE @]
     /\ subs' = IF subscribes THEN Subscribed(cleaned, i, PathOf(p)) ELSE cleaned
     /\ cleanup' = [cleanup EXCEPT ![i] = EffectCleanup(h, subscribes)]
     /\ trace' = [trace EXCEPT ![i] =
                    CleanupEvents(cleanup[i]) \o EffectBody(p, h, subscribes)]
     /\ phase' = [phase EXCEPT ![i] = IF thrown THEN "gone" ELSE @]
     /\ lateWrite' = Forgotten(lateWrite)
     /\ inflight' = IF ran /\ actionWrites = "async"
                    THEN inflight \cup {[path |-> PathOf(p), args |-> CallArgs(p)]}
                    ELSE inflight
     /\ state' = [j \in Instances |->
                    IF j \in reached THEN Callback(state[j], result)
                    ELSE IF j = i THEN StateAfterEffect(state[j]) ELSE state[j]]
     /\ stateUpdated' = [j \in Instances |-> stateUpdated[j] \/ j \in reached]
     /\ lastDelivered' = [j \in Instances |->
                            IF j \in reached THEN result ELSE lastDelivered[j]]
     /\ sawValue' = [j \in Instances |-> sawValue[j] \/ j \in reached]
     /\ UNCHANGED <<factoryVars, props, returned>>

\* the store writes value at path and calls back every live subscription
\* of that path
Notified(path) == {i \in Instances : \E h \in LiveHandles(i) : subs[h].path = path}

\* the handles on that path that were unsubscribed before this write
Released(path) == {h \in 1..Len(subs) : subs[h].path = path /\ ~Live(h)}

\* the store sets value at path and calls the callbacks subscribed to it
Deliver(path, value) ==
  /\ state' = [i \in Instances |->
                 IF i \in Notified(path) THEN Callback(state[i], value) ELSE state[i]]
  /\ stateUpdated' = [i \in Instances |-> stateUpdated[i] \/ i \in Notified(path)]
  /\ lastDelivered' = [i \in Instances |->
                         IF i \in Notified(path) THEN value ELSE lastDelivered[i]]
  /\ sawValue' = [i \in Instances |->
                    sawValue[i] \/ (i \in Notified(path) /\ ~isNil(value))]
  /\ lateWrite' = IF lateWrite # NONE /\ Released(path) # {} /\ Notified(path) = {}
                  THEN "yes" ELSE lateWrite
  /\ UNCHANGED <<factoryVars, initialValueCopy, phase, props, returned,
                 effectPending, cleanup, subs, trace, actionCalls>>

\* a store write made by the hook's environment
Write(path, value) == Deliver(path, value) /\ UNCHANGED inflight

\* the promise of an in-flight call of the action resolves: the action
\* writes its result to the store
Resolve(c) ==
  /\ c \in inflight
  /\ inflight' = inflight \ {c}
  /\ Deliver(c.path, ResultOf(c.args))

\* (mutant) the effect returns nothing for React to call at unmount
UnmountLeaks(i) ==
  /\ phase[i] = "mounted"
  /\ ~effectPending[i]
  /\ phase' = [phase EXCEPT ![i] = "gone"]
  /\ trace' = [trace EXCEPT ![i] = <<>>]
  /\ cleanup' = [cleanup EXCEPT ![i] = -1]
  /\ lateWrite' = Forgotten(lateWrite)
  /\ UNCHANGED <<factoryVars, initialValueCopy, props, state, returned,
                 effectPending, stateUpdated, actionCalls, lastDelivered,
                 sawValue, subs, inflight>>

\* the component instance unmounts: React calls the effect's cleanup
Unmount(i) ==
  /\ phase[i] = "mounted"
  /\ ~effectPending[i]
  /\ phase' = [phase EXCEPT ![i] = "gone"]
  /\ subs' = AfterCleanup(cleanup[i])
  /\ trace' = [trace EXCEPT ![i] = CleanupEvents(cleanup[i])]
  /\ cleanup' = [cleanup EXCEPT ![i] = -1]
  /\ lateWrite' = Forgotten(lateWrite)
  /\ UNCHANGED <<factoryVars, initialValueCopy, props, state, returned,
                 effectPending, stateUpdated, actionCalls, lastDelivered,
                 sawValue, inflight>>

\* the options a caller can pass to this kind of hook
KeyChoices ==
  CASE kind \in {"keyed", "keyedLegacy", "wrapped"} -> Keys
    [] kind = "curried" -> {property, otherProperty}
    [] OTHER -> {UNDEFINED}
InvokeChoices == IF kind \in {"action", "keyed"} THEN RawInvoke ELSE {UNDEFINED}
ArgsChoices == IF kind \in {"action", "keyed"} THEN RawArgs
               ELSE {[isArray |-> FALSE, elems |-> <<>>]}

\* what those options destructure to
PropsChoices ==
  {PropsOf(k, ri, ra) : k \in KeyChoices, ri \in InvokeChoices, ra \in ArgsChoices}

\* the paths hooks of this kind subscribe to
Paths ==
  CASE kind \in {"keyed", "keyedLegacy"} -> {PathOf([key |-> k]) : k \in {"k1", "k2"}}
    [] kind = "curried" -> {property, otherProperty}
    [] OTHER -> {property}

Next ==
  \/ \E i \in instances, p \in PropsChoices : Mount(i, p)
  \/ \E i \in instances, p \in PropsChoices : Rerender(i, p)
  \/ \E i \in instances : RunEffect(i)
  \/ \E path \in Paths, value \in Values : Write(path, value)
  \/ \E i \in instances : Unmount(i)

Spec == Init /\ [][Next]_vars

SpecFailing == InitFailing /\ [][Next]_vars

SpecLate == InitLate /\ [][Next]_vars

\* two component instances call the hook of one factory, each rendered with
\* the default invokeAction; the keyed hook with a defined key and no
\* actionArgs, the action-bound hook with one argument
InitPair ==
  /\ InitHooks
  /\ instances = Instances
  /\ kind \in {"action", "keyed"}
  /\ isFunction(action)
  /\ initialValue \in {UNDEFINED, "fb"}
  /\ actionThrows = FALSE /\ actionRejects = FALSE
  /\ actionWrites = "never"
  /\ lateWrite = NONE

PairChoices ==
  {p \in PropsChoices :
     /\ p.invokeAction
     /\ IF kind = "keyed" THEN ~isNil(p.key) /\ p.actionArr = <<>>
                          ELSE Len(p.actionArr) = 1}

\* what the store delivers to them
PairValues == {UNDEFINED, "v1"}

NextPair ==
  \/ \E i \in instances, p \in PairChoices : Mount(i, p)
  \/ \E i \in instances, p \in PairChoices : Rerender(i, p)
  \/ \E i \in instances : RunEffect(i)
  \/ \E path \in Paths, value \in PairValues : Write(path, value)
  \/ \E i \in instances : Unmount(i)

SpecPair == InitPair /\ [][NextPair]_vars

\* the synchronous write of the action is part of the effect run
SpecSync == InitSync /\ [][Next]_vars

\* the store is written by the calls of the action only, as each resolves
NextAsync ==
  \/ \E i \in instances, p \in PropsChoices : Mount(i, p)
  \/ \E i \in instances, p \in PropsChoices : Rerender(i, p)
  \/ \E i \in instances : RunEffect(i)
  \/ \E c \in inflight : Resolve(c)
  \/ \E i \in instances : Unmount(i)

SpecAsync == InitAsync /\ [][NextAsync]_vars

\* React renders the component again, with the options it had, after a
\* setState call
RenderAfterUpdate(i) == stateUpdated[i] /\ Rerender(i, props[i])

\* a plain or action-bound hook whose action, when callable, returns
InitLive ==
  /\ InitFactory
  /\ kind \in {"plain", "action"}
  /\ actionThrows = FALSE /\ actionRejects = FALSE
  /\ actionWrites = "never"
  /\ lateWrite = NONE

\* React runs a scheduled effect, and re-renders after a local state update
Fairness ==
  \A i \in Instances : WF_vars(RunEffect(i)) /\ WF_vars(RenderAfterUpdate(i))

SpecLive == InitLive /\ [][Next]_vars /\ Fairness

\* ------------------------------------------------------------ properties

\* the hook has rendered and is mounted
Rendered(i) == phase[i] = "mounted" /\ returned[i] # NONE

\* its last render came after the last setState call
Fresh(i) == Rendered(i) /\ ~stateUpdated[i]

\* what the hook shows for "no value": initialValue when it is non-nil
Fallback == IF isNil(initialValue) THEN NULL ELSE initialValue

ActionOrKeyed == kind \in {"action", "keyed"}

\* C1 (as stated): after a notification delivering any value other than
\* undefined, null included, the next render returns exactly that value,
\* whatever initialValue is.
C1_NextRenderReturnsDelivered ==
  \A i \in Instances :
    (ActionOrKeyed /\ Fresh(i) /\ lastDelivered[i] \notin {NONE, UNDEFINED})
      => returned[i] = lastDelivered[i]

\* C1 (amended): after a notification delivering a value other than
\* undefined and null, the next render returns exactly that value; after
\* one delivering null it returns the fallback when initialValue is non-nil,
\* and null otherwise.
C1_NextRenderReturnsNonNilDelivered ==
  \A i \in Instances :
    (ActionOrKeyed /\ Fresh(i)) =>
      /\ lastDelivered[i] \notin {NONE, UNDEFINED, NULL} => returned[i] = lastDelivered[i]
      /\ lastDelivered[i] = NULL => returned[i] = Fallback

C1_Witness ==
  \E i \in Instances :
    /\ ActionOrKeyed /\ Fresh(i) /\ sawValue[i]
    /\ lastDelivered[i] = NULL /\ initialValue = "fb" /\ returned[i] = "fb"

\* C2: after a notification delivering undefined, the renders that follow
\* (until the next notification) return initialValue when it is non-nil and
\* null otherwise, never a value observed earlier.
C2_UndefinedRevertsToFallback ==
  \A i \in Instances :
    (ActionOrKeyed /\ Fresh(i) /\ lastDelivered[i] = UNDEFINED)
      => returned[i] = Fallback

C2_Witness ==
  \E i \in Instances :
    /\ ActionOrKeyed /\ Fresh(i) /\ sawValue[i]
    /\ lastDelivered[i] = UNDEFINED /\ initialValue = "fb" /\ returned[i] = "fb"

\* C3: with a defined initialValue, every render before the first
\* notification to the instance returns initialValue, for the keyed hook
\* both with the key absent and with it defined.
C3_InitialValueBeforeNotification ==
  \A i \in Instances :
    (ActionOrKeyed /\ Rendered(i) /\ ~isUndefined(initialValue) /\ lastDelivered[i] = NONE)
      => returned[i] = initialValue

C3_Witness ==
  \E i \in Instances :
    /\ kind = "keyed" /\ Rendered(i) /\ initialValue = "fb"
    /\ lastDelivered[i] = NONE /\ returned[i] = "fb"
    /\ props[i].key = "k2" /\ cleanup[i] = 2 /\ ~effectPending[i]

\* the instance's scheduled effect runs in this step
EffectStep(i) == phase[i] = "mounted" /\ effectPending[i] /\ ~effectPending'[i]

\* the instance stays mounted with no effect scheduled before the step: a
\* render, or a store write
QuietStep(i) == phase[i] = "mounted" /\ ~effectPending[i] /\ phase'[i] = "mounted"

\* subscribe calls made so far for the instance
SubCount(s, i) == Cardinality({h \in 1..Len(s) : s[h].owner = i})

Ops(t) == {t[n].op : n \in 1..Len(t)}

KeyPath(k) == property \o "." \o k

\* the call of the configured action the effect makes when invokeAction is true
ActionCall(p) == IF p.invokeAction THEN <<Event(actionFn, "", p.actionArr, 0)>> ELSE <<>>

\* C4: keyed hook: no step of an instance whose effect sees an absent key
\* (null or undefined) calls store.subscribe or the action, whatever
\* invokeAction and actionArgs are; so neither is ever called while the key
\* has been absent from mount onward.
C4_AbsentKeyIsInert ==
  [][\A i \in Instances : kind = "keyed" =>
       /\ (SubCount(subs', i) # SubCount(subs, i) \/ actionCalls'[i] # actionCalls[i])
            => ~isNil(props[i].key)
       /\ (EffectStep(i) /\ isNil(props[i].key))
            => /\ Ops(trace'[i]) \subseteq {"unsubscribe", "noop"}
               /\ cleanup'[i] = 0]_vars

C4_Witness ==
  \E i \in Instances :
    /\ kind = "keyed" /\ isFunction(action) /\ phase[i] = "mounted"
    /\ props[i].key = NULL /\ props[i].invokeAction /\ props[i].actionArr = <<"a1">>
    /\ ~effectPending[i] /\ trace[i] = <<Event("noop", "", <<>>, 0)>>
    /\ subs = <<>> /\ actionCalls[i] = 0

\* C5: keyed hook: a render that changes the key from a defined k1 to a
\* different defined k2 re-activates; the re-activation first unsubscribes
\* the handle subscribed to property.k1, then invokes the action (only if
\* invokeAction is true), then subscribes to property.k2.
C5_KeyChangeOrder ==
  [][\A i \in Instances : kind = "keyed" =>
       /\ (/\ QuietStep(i)
           /\ ~isNil(props[i].key) /\ ~isNil(props'[i].key)
           /\ props'[i].key # props[i].key)
            => /\ effectPending'[i]
               /\ cleanup[i] > 0 /\ Live(cleanup[i])
               /\ subs[cleanup[i]].path = KeyPath(props[i].key)
               /\ cleanup'[i] = cleanup[i] /\ subs' = subs
       /\ (/\ EffectStep(i) /\ cleanup[i] > 0 /\ ~isNil(props[i].key)
           /\ subs[cleanup[i]].path # KeyPath(props[i].key))
            => /\ trace'[i] =
                    <<Event("unsubscribe", subs[cleanup[i]].path, <<>>, cleanup[i])>>
                    \o ActionCall(props[i])
                    \o <<Event("subscribe", KeyPath(props[i].key), <<>>, Len(subs) + 1)>>
               /\ subs' = Append(Unsubscribed(subs, cleanup[i]),
                                 [path |-> KeyPath(props[i].key), owner |-> i, unsubs |-> 0])
               /\ cleanup'[i] = Len(subs')]_vars

C5_Witness ==
  \E i \in Instances :
    /\ kind = "keyed" /\ isFunction(action) /\ phase[i] = "mounted"
    /\ trace[i] = << Event("unsubscribe", KeyPath("k1"), <<>>, 1),
                     Event("action", "", <<"a1">>, 0),
                     Event("subscribe", KeyPath("k2"), <<>>, 2) >>
    /\ subs[1].unsubs = 1 /\ Live(2)

\* C6: action-bound hook: an effect run with invokeAction false never
\* invokes the action (no step invokes it unless invokeAction is true) and
\* still subscribes to property, at mount and at every re-activation.
C6_InvokeActionFalse ==
  [][\A i \in Instances : kind = "action" =>
       /\ actionCalls'[i] # actionCalls[i] => EffectStep(i) /\ props[i].invokeAction
       /\ (EffectStep(i) /\ ~props[i].invokeAction)
            => /\ Ops(trace'[i]) \subseteq {"unsubscribe", "subscribe"}
               /\ Len(subs') = Len(subs) + 1
               /\ subs'[Len(subs')] = [path |-> property, owner |-> i, unsubs |-> 0]
               /\ cleanup'[i] = Len(subs')]_vars

C6_Witness ==
  \E i \in Instances :
    /\ kind = "action" /\ isFunction(action) /\ phase[i] = "mounted"
    /\ ~props[i].invokeAction /\ actionCalls[i] = 0
    /\ Len(subs) = 2 /\ subs[1].unsubs = 1 /\ Live(2) /\ cleanup[i] = 2
    /\ subs[2].path = property

\* C7: keyed hook, first activation: a render with key = k defined, after
\* renders with the key absent, schedules the effect; when that effect runs
\* with invokeAction true (the default) for an instance that has only been
\* rendered with the key absent, it makes exactly one subscribe call, to
\* property.k, and one action call, with exactly the elements of actionArgs
\* (none by default) and without the key.
C7_FirstActivation ==
  [][\A i \in Instances : kind = "keyed" =>
       /\ (QuietStep(i) /\ isNil(props[i].key) /\ ~isNil(props'[i].key))
            => effectPending'[i] /\ cleanup[i] = 0 /\ subs' = subs
       /\ (/\ EffectStep(i) /\ cleanup[i] = 0
           /\ SubCount(subs, i) = 0 /\ actionCalls[i] = 0
           /\ ~isNil(props[i].key) /\ props[i].invokeAction)
            => /\ trace'[i] =
                    << Event("noop", "", <<>>, 0),
                       Event(actionFn, "", props[i].actionArr, 0),
                       Event("subscribe", KeyPath(props[i].key), <<>>, Len(subs) + 1) >>
               /\ SubCount(subs', i) = 1
               /\ subs'[Len(subs')].path = KeyPath(props[i].key)
               /\ actionCalls'[i] = IF isFunction(action) THEN 1 ELSE 0]_vars

C7_Witness ==
  \E i \in Instances :
    /\ kind = "keyed" /\ isFunction(action) /\ phase[i] = "mounted"
    /\ props[i] = [key |-> "k1", invokeAction |-> TRUE, actionArr |-> <<>>]
    /\ trace[i] = << Event("noop", "", <<>>, 0),
                     Event("action", "", <<>>, 0),
                     Event("subscribe", KeyPath("k1"), <<>>, 1) >>
    /\ Len(subs) = 1 /\ actionCalls[i] = 1

\* C8: every handle store.subscribe returned is unsubscribed at most once;
\* it is unsubscribed once the instance is unmounted; and a handle not yet
\* unsubscribed is the one the instance's last effect run returned, so an
\* older handle was released at the re-activation, before the next
\* subscribe call.
C8_UnsubscribedExactlyOnce ==
  /\ \A h \in 1..Len(subs) :
       /\ subs[h].unsubs <= 1
       /\ phase[subs[h].owner] = "gone" => subs[h].unsubs = 1
       /\ subs[h].unsubs = 0 =>
            phase[subs[h].owner] = "mounted" /\ cleanup[subs[h].owner] = h
  /\ \A i \in Instances : \A n \in 1..Len(trace[i]) :
       trace[i][n].op = "unsubscribe" => n = 1

C8_Witness ==
  \E i \in Instances :
    /\ kind = "wrapped" /\ phase[i] = "gone"
    /\ Len(subs) = 2 /\ subs[1].unsubs = 1 /\ subs[2].unsubs = 1
    /\ trace[i] = <<Event("unsubscribe", property, <<>>, 2)>>

\* C9 (as stated): keyed hook: every render with the key absent returns
\* null, or initialValue when it is non-nil, also after a value was
\* observed while the key was defined.
C9_AbsentKeyReturnsNoValue ==
  \A i \in Instances :
    (kind = "keyed" /\ Rendered(i) /\ isNil(props[i].key))
      => returned[i] = Fallback

\* C9 (amended): keyed hook: a render with the key absent returns null, or
\* initialValue when it is non-nil, as long as the last value delivered to
\* the instance, if any, was null or undefined; after a non-nil value was
\* delivered it keeps returning that value, the local state is not reset
\* when the key goes absent.
C9_AbsentKeyReturnsLastState ==
  \A i \in Instances :
    (kind = "keyed" /\ Rendered(i) /\ isNil(props[i].key)) =>
      /\ ~sawValue[i] => returned[i] = Fallback
      /\ Fresh(i) =>
           returned[i] = IF lastDelivered[i] \in {NONE, UNDEFINED, NULL}
                         THEN Fallback ELSE lastDelivered[i]

C9_Witness ==
  \E i \in Instances :
    /\ kind = "keyed" /\ Fresh(i) /\ isNil(props[i].key)
    /\ cleanup[i] = 0 /\ ~effectPending[i] /\ LiveHandles(i) = {}
    /\ lastDelivered[i] = "v1" /\ returned[i] = "v1" /\ initialValue = "fb"

LiveHandlesAfter(i) == {h \in 1..Len(subs') : subs'[h].owner = i /\ subs'[h].unsubs = 0}

\* the unsubscribe call of a re-activation, none at the first activation
Release(c) == IF c > 0 THEN <<Event("unsubscribe", subs[c].path, <<>>, c)>> ELSE <<>>

\* what the hook shows once the last delivery has been rendered
Shown(i) == IF lastDelivered[i] \in {NONE, UNDEFINED, NULL} THEN Fallback
            ELSE lastDelivered[i]

\* C11: plain property hook: store.subscribe is called exactly once per
\* component instance, by the effect of its mount, with the fixed property;
\* no re-render and no notification schedules the effect again, subscribes
\* or unsubscribes; the one handle stays live until unmount.
C11_PlainSubscribesOnce ==
  [][\A i \in Instances : kind = "plain" =>
       /\ SubCount(subs', i) # SubCount(subs, i)
            => /\ EffectStep(i) /\ cleanup[i] = -1 /\ SubCount(subs, i) = 0
               /\ subs' = Append(subs, [path |-> property, owner |-> i, unsubs |-> 0])
       /\ EffectStep(i) => SubCount(subs', i) = 1 /\ cleanup'[i] = Len(subs')
       /\ QuietStep(i) => ~effectPending'[i] /\ subs' = subs /\ cleanup'[i] = cleanup[i]
       /\ (phase[i] = "mounted" /\ ~effectPending[i])
            => LiveHandles(i) = {cleanup[i]} /\ SubCount(subs, i) = 1]_vars

C11_Witness ==
  \E i \in Instances :
    /\ kind = "plain" /\ Fresh(i) /\ lastDelivered[i] = "v2" /\ returned[i] = "v2"
    /\ sawValue[i] /\ trace[i] = <<>>
    /\ subs = <<[path |-> property, owner |-> i, unsubs |-> 0]>>

\* C12: wrapped hook: every effect run (the mount's, and the one a render
\* with a different param schedules) calls invoke(param) exactly once,
\* also with param undefined or null, and then subscribes to the fixed
\* property; a render with the same param schedules nothing; the hook
\* returns its local state with no fallback: null until a value other than
\* undefined is delivered, then the delivered value.
C12_WrappedInvokesThenSubscribes ==
  [][\A i \in Instances : kind = "wrapped" =>
       /\ EffectStep(i)
            => /\ trace'[i] = Release(cleanup[i])
                    \o << Event("action", "", <<props[i].key>>, 0),
                          Event("subscribe", property, <<>>, Len(subs) + 1) >>
               /\ actionCalls'[i] = actionCalls[i] + 1
               /\ subs'[Len(subs')] = [path |-> property, owner |-> i, unsubs |-> 0]
               /\ SubCount(subs', i) = SubCount(subs, i) + 1
       /\ ~EffectStep(i) => actionCalls'[i] = actionCalls[i] /\ SubCount(subs', i) = SubCount(subs, i)
       /\ QuietStep(i) => (effectPending'[i] <=> props'[i].key # props[i].key)
       /\ Fresh(i) => returned[i] = IF lastDelivered[i] \in {NONE, UNDEFINED}
                                    THEN NULL ELSE lastDelivered[i]]_vars

C12_Witness ==
  \E i \in Instances :
    /\ kind = "wrapped" /\ phase[i] = "mounted" /\ props[i].key = UNDEFINED
    /\ trace[i] = << Event("unsubscribe", property, <<>>, 1),
                     Event("action", "", <<UNDEFINED>>, 0),
                     Event("subscribe", property, <<>>, 2) >>
    /\ actionCalls[i] = 2 /\ returned[i] = NULL /\ Live(2)

\* C13: a factory built with action absent or not callable: no effect run
\* raises (the instance stays mounted); the effect subscribes exactly as
\* with a callable action (after releasing the previous handle, to the
\* hook's path, unless the keyed hook's key is absent); the configured
\* action is never invoked; and once a delivery has been rendered the hook
\* returns what the deliveries alone determine.
C13_NonCallableActionIsNoop ==
  [][\A i \in Instances : (ActionOrKeyed /\ ~isFunction(action)) =>
       /\ actionCalls'[i] = 0
       /\ phase[i] = "mounted" /\ effectPending[i] => phase'[i] = "mounted"
       /\ (EffectStep(i) /\ (kind = "action" \/ ~isNil(props[i].key)))
            => /\ subs' = Append(IF cleanup[i] > 0 THEN Unsubscribed(subs, cleanup[i])
                                                     ELSE subs,
                                 [path |-> IF kind = "keyed" THEN KeyPath(props[i].key)
                                                             ELSE property,
                                  owner |-> i, unsubs |-> 0])
               /\ cleanup'[i] = Len(subs')
       /\ Fresh(i) => returned[i] = Shown(i)]_vars

C13_Witness ==
  \E i \in Instances :
    /\ kind = "keyed" /\ action = "notCallable" /\ phase[i] = "mounted"
    /\ props[i] = [key |-> "k1", invokeAction |-> TRUE, actionArr |-> <<"a1">>]
    /\ trace[i] = << Event("noop", "", <<>>, 0),
                     Event("noop", "", <<"a1">>, 0),
                     Event("subscribe", KeyPath("k1"), <<>>, 1) >>
    /\ actionCalls[i] = 0 /\ Live(1)

\* C14: in every reachable state each component instance holds at most one
\* live store handle, the one its last effect run returned, so a store
\* write calls the instance's callback at most once; a re-activation
\* releases the previous handle before it acquires the new one.
C14_AtMostOneLiveHandle ==
  /\ \A i \in Instances :
       /\ Cardinality(LiveHandles(i)) <= 1
       /\ LiveHandles(i) \subseteq {cleanup[i]}
       /\ \A path \in Paths :
            Cardinality({h \in LiveHandles(i) : subs[h].path = path}) <= 1
  /\ \A i \in Instances : \A m, n \in 1..Len(trace[i]) :
       (trace[i][m].op = "unsubscribe" /\ trace[i][n].op = "subscribe") => m < n

C14_Witness ==
  \E i \in Instances :
    /\ kind = "action" /\ phase[i] = "mounted" /\ ~effectPending[i]
    /\ Len(subs) = 2 /\ subs[1].unsubs = 1 /\ LiveHandles(i) = {2}
    /\ stateUpdated[i] /\ lastDelivered[i] = "v1"

\* C15: action-bound, keyed and wrapped hooks: in every effect run that
\* calls the configured action (or invoker), the call comes before the
\* store.subscribe call of that run; no run subscribes first.
C15_ActionBeforeSubscribe ==
  [][\A i \in Instances : (kind # "plain" /\ EffectStep(i)) =>
       /\ \A m, n \in 1..Len(trace'[i]) :
            (trace'[i][m].op = "action" /\ trace'[i][n].op = "subscribe") => m < n
       /\ actionCalls'[i] # actionCalls[i]
            => /\ \E m \in 1..Len(trace'[i]) : trace'[i][m].op = "action"
               /\ trace'[i][Len(trace'[i])].op = "subscribe"]_vars

C15_Witness ==
  \E i \in Instances :
    /\ kind = "wrapped" /\ phase[i] = "mounted"
    /\ trace[i] = << Event("action", "", <<"k1">>, 0),
                     Event("subscribe", property, <<>>, 1) >>
    /\ actionCalls[i] = 1 /\ LiveHandles(i) = {1}

\* C16: every hook variant: the step that unmounts a component instance
\* unsubscribes its live handle when it has one, and calls nothing on the
\* store when it has none (Idle); in every state after the unmount the
\* instance has no live handle.
C16_UnmountUnsubscribes ==
  [][\A i \in Instances :
       /\ (phase[i] = "mounted" /\ phase'[i] = "gone")
            => /\ \A h \in LiveHandles(i) :
                    /\ subs' = Unsubscribed(subs, h)
                    /\ trace'[i] = <<Event("unsubscribe", subs[h].path, <<>>, h)>>
               /\ LiveHandles(i) = {}
                    => subs' = subs /\ Ops(trace'[i]) \subseteq {"noop"}
               /\ LiveHandlesAfter(i) = {}
       /\ phase[i] = "gone" => LiveHandles(i) = {} /\ LiveHandlesAfter(i) = {}]_vars

C16_Witness ==
  \E i \in Instances :
    /\ kind = "plain" /\ phase[i] = "gone" /\ lastDelivered[i] = "v1"
    /\ subs = <<[path |-> property, owner |-> i, unsubs |-> 1]>>
    /\ trace[i] = <<Event("unsubscribe", property, <<>>, 1)>>

\* C17: keyed hook, Active to Idle: a render that changes the key from a
\* defined value to an absent one schedules the effect; that effect run
\* unsubscribes the previous handle, makes no subscribe call and no action
\* call, and leaves the instance with no live handle.
C17_ActiveToIdle ==
  [][\A i \in Instances : kind = "keyed" =>
       /\ (QuietStep(i) /\ ~isNil(props[i].key) /\ isNil(props'[i].key))
            => /\ effectPending'[i]
               /\ cleanup[i] > 0 /\ Live(cleanup[i])
               /\ cleanup'[i] = cleanup[i] /\ subs' = subs
       /\ (EffectStep(i) /\ cleanup[i] > 0 /\ isNil(props[i].key))
            => /\ trace'[i] =
                    <<Event("unsubscribe", subs[cleanup[i]].path, <<>>, cleanup[i])>>
               /\ subs' = Unsubscribed(subs, cleanup[i])
               /\ actionCalls'[i] = actionCalls[i]
               /\ LiveHandlesAfter(i) = {}
               /\ cleanup'[i] = 0]_vars

C17_Witness ==
  \E i \in Instances :
    /\ kind = "keyed" /\ isFunction(action) /\ phase[i] = "mounted"
    /\ props[i] = [key |-> UNDEFINED, invokeAction |-> TRUE, actionArr |-> <<"a1">>]
    /\ trace[i] = <<Event("unsubscribe", KeyPath("k2"), <<>>, 1)>>
    /\ Len(subs) = 1 /\ LiveHandles(i) = {} /\ actionCalls[i] = 1

\* the effect run of the step calls the configured action (or invoker)
ActionCalled(i) == EffectStep(i) /\ actionCalls'[i] # actionCalls[i]

\* the effect run of the step ends with the subscription of its activation
Established(i) ==
  /\ phase'[i] = "mounted"
  /\ subs' = Append(IF cleanup[i] > 0 THEN Unsubscribed(subs, cleanup[i]) ELSE subs,
                    [path |-> IF kind \in {"keyed", "keyedLegacy"}
                              THEN KeyPath(props[i].key) ELSE property,
                     owner |-> i, unsubs |-> 0])
  /\ cleanup'[i] = Len(subs')

\* C18 (as stated): an action that fails when the effect invokes it, by
\* throwing synchronously or by returning a promise that rejects, never
\* makes the activation fail: the instance stays mounted, the subscription
\* of that activation is established, and what the hook returns is
\* unchanged.
C18_FailingActionNeverFailsActivation ==
  [][\A i \in Instances : (kind # "plain" /\ ActionCalled(i)) =>
       /\ Established(i)
       /\ state'[i] = state[i] /\ returned'[i] = returned[i]]_vars

\* C18 (amended): an action that returns a promise that rejects never
\* makes the activation fail: the promise is dropped, the subscription of
\* that activation is established and what the hook returns is unchanged.
\* An action that throws synchronously is not caught: the exception leaves
\* the effect after the previous handle was released and before
\* store.subscribe is called, so the activation ends with no subscription
\* and the instance is torn down.
C18_OnlyRejectionIsSwallowed ==
  [][\A i \in Instances : (kind # "plain" /\ ActionCalled(i)) =>
       /\ state'[i] = state[i] /\ returned'[i] = returned[i]
       /\ actionRejects => Established(i)
       /\ actionThrows
            => /\ phase'[i] = "gone"
               /\ subs' = IF cleanup[i] > 0 THEN Unsubscribed(subs, cleanup[i]) ELSE subs
               /\ Ops(trace'[i]) \subseteq {"unsubscribe", "noop", "action"}
               /\ LiveHandlesAfter(i) = {}]_vars

C18_Witness ==
  \E i \in Instances :
    /\ kind = "action" /\ actionThrows /\ phase[i] = "gone"
    /\ returned[i] = "fb" /\ lastDelivered[i] = NULL
    /\ Len(trace[i]) = 2
    /\ trace[i][1] = Event("unsubscribe", property, <<>>, 1)
    /\ trace[i][2].op = "action"
    /\ subs = <<[path |-> property, owner |-> i, unsubs |-> 1]>>

\* the instance is mounted, its last effect has run, and its key (param)
\* is absent
SettledAbsent(i) == phase[i] = "mounted" /\ ~effectPending[i] /\ isNil(props[i].key)

\* C19 (as stated): wrapped hook: while param is absent (null or
\* undefined) the hook is Idle, as the keyed hook is with an absent key: it
\* holds no subscription and its effect has not called the invoker.
C19_WrappedAbsentParamIsIdle ==
  \A i \in Instances : (kind = "wrapped" /\ SettledAbsent(i)) =>
    /\ LiveHandles(i) = {}
    /\ "action" \notin Ops(trace[i])

\* C19 (amended): only the keyed hook is Idle while its key is absent (no
\* live handle, the effect returned noop and called nothing but a
\* cleanup).  The wrapped hook has no Idle state: with param null or
\* undefined its effect calls invoke(param) and subscribes to the fixed
\* property like with any other param, so the instance holds one live
\* handle.
C19_OnlyKeyedIsIdle ==
  \A i \in Instances :
    /\ (kind = "keyed" /\ SettledAbsent(i))
         => /\ LiveHandles(i) = {} /\ cleanup[i] = 0
            /\ "action" \notin Ops(trace[i]) /\ "subscribe" \notin Ops(trace[i])
    /\ (kind = "wrapped" /\ SettledAbsent(i))
         => /\ cleanup[i] > 0 /\ LiveHandles(i) = {cleanup[i]}
            /\ subs[cleanup[i]].path = property
            /\ actionCalls[i] >= 1
            /\ trace[i] # <<>> =>
                 /\ Len(trace[i]) >= 2
                 /\ trace[i][Len(trace[i]) - 1] = Event("action", "", <<props[i].key>>, 0)
                 /\ trace[i][Len(trace[i])] = Event("subscribe", property, <<>>, cleanup[i])

C19_Witness ==
  \E i \in Instances :
    /\ kind = "wrapped" /\ SettledAbsent(i) /\ props[i].key = NULL
    /\ trace[i] = << Event("unsubscribe", property, <<>>, 1),
                     Event("action", "", <<NULL>>, 0),
                     Event("subscribe", property, <<>>, 2) >>
    /\ actionCalls[i] = 2 /\ LiveHandles(i) = {2} /\ state[i] = "v1"

\* the step calls the instance's subscription callback
Delivered(i) ==
  \/ state'[i] # state[i]
  \/ lastDelivered'[i] # lastDelivered[i]
  \/ stateUpdated'[i] /\ ~stateUpdated[i]

\* C20: once an instance's handle has been unsubscribed, by unmount or, in
\* the keyed hook, by a key change away from its path, a later store write
\* to that path never reaches the instance: a step changes the local state
\* of a rendered instance only through the live handle of its last effect
\* run; an unmounted instance's local state and returned value never
\* change; and a write to a path that only unsubscribed handles were on
\* changes no instance's local state or returned value.
C20_LateWriteUnobserved ==
  [][/\ \A i \in Instances :
          /\ (phase[i] # "unmounted" /\ Delivered(i))
               => phase[i] = "mounted" /\ cleanup[i] > 0 /\ Live(cleanup[i])
          /\ phase[i] = "gone" => state'[i] = state[i] /\ returned'[i] = returned[i]
     /\ (lateWrite = "no" /\ lateWrite' = "yes")
          => /\ state' = state /\ returned' = returned
             /\ stateUpdated' = stateUpdated /\ lastDelivered' = lastDelivered]_vars

C20_Witness ==
  \E i \in Instances :
    /\ kind = "keyed" /\ lateWrite = "yes" /\ phase[i] = "mounted" /\ ~effectPending[i]
    /\ props[i].key = "k2" /\ Len(subs) = 2
    /\ subs[1].path = KeyPath("k1") /\ subs[1].unsubs = 1
    /\ subs[2].path = KeyPath("k2") /\ Live(2)
    /\ state[i] = "v1" /\ lastDelivered[i] = "v1" /\ returned[i] = "v1"

\* C21: the factory's fallback slot takes at most one transition, from
\* undefined to null, and only when initialValue was not supplied; a slot
\* that holds null or a supplied value is changed by no render, effect run,
\* notification, re-activation or unmount of any instance of the factory.
C21_SlotNormalisedOnce ==
  [][/\ initialValueCopy' # initialValueCopy
          => /\ isUndefined(initialValueCopy) /\ isUndefined(initialValue)
             /\ initialValueCopy' = NULL
     /\ ~isUndefined(initialValue) => initialValueCopy = initialValue
     /\ initialValueCopy \in {initialValue, NULL}]_vars

C21_Witness ==
  /\ kind = "keyed" /\ isUndefined(initialValue) /\ initialValueCopy = NULL
  /\ phase["c1"] = "gone" /\ phase["c2"] = "mounted" /\ ~effectPending["c2"]
  /\ returned["c2"] = "v1" /\ Len(subs) = 2

\* the step is a render, effect run or unmount of the instance
OwnStep(i) ==
  \/ phase'[i] # phase[i]
  \/ props'[i] # props[i]
  \/ effectPending'[i] # effectPending[i]
  \/ cleanup'[i] # cleanup[i]
  \/ trace'[i] # trace[i]
  \/ returned'[i] # returned[i]
  \/ stateUpdated[i] /\ ~stateUpdated'[i]

\* C23: two component instances mounted from the same factory are
\* independent: their live handles are distinct; a render, effect run
\* (activation or re-activation) or unmount of one leaves every handle of
\* the other as it was and changes neither the other's local state nor its
\* returned value; and the shared fallback slot never makes them return
\* different values: each returns what its own last delivery and the
\* factory's initialValue determine, so two instances with the same last
\* delivery return the same value.
C23_InstancesIndependent ==
  [][\A i, j \in Instances : i # j =>
       /\ OwnStep(i)
            => /\ \A h \in 1..Len(subs) : subs[h].owner = j => subs'[h] = subs[h]
               /\ state'[j] = state[j] /\ returned'[j] = returned[j]
               /\ cleanup'[j] = cleanup[j] /\ phase'[j] = phase[j]
       /\ LiveHandles(i) \cap LiveHandles(j) = {}
       /\ (cleanup[i] > 0 /\ cleanup[j] > 0) => cleanup[i] # cleanup[j]
       /\ Fresh(i) => returned[i] = Shown(i)
       /\ (Fresh(i) /\ Fresh(j) /\ lastDelivered[i] = lastDelivered[j])
            => returned[i] = returned[j]]_vars

C23_Witness ==
  /\ kind = "keyed" /\ initialValue = "fb"
  /\ phase["c1"] = "mounted" /\ phase["c2"] = "mounted"
  /\ props["c1"].key = "k2" /\ props["c2"].key = "k1"
  /\ trace["c1"] = << Event("unsubscribe", KeyPath("k1"), <<>>, 1),
                      Event("action", "", <<>>, 0),
                      Event("subscribe", KeyPath("k2"), <<>>, 3) >>
  /\ LiveHandles("c2") = {2} /\ subs[2].path = KeyPath("k1")
  /\ state["c1"] = "v1" /\ state["c2"] = "v1" /\ returned["c2"] = "v1"

\* C22: liveness, given that React schedules a re-render after a local
\* state update: for a mounted instance, every notification the store
\* delivers is eventually followed by a render that returns what the most
\* recently delivered value determines (v for a non-nil v, the fallback or
\* null for undefined), unless the instance is unmounted first.
C22_DeliveryEventuallyRendered ==
  \A i \in Instances :
    (phase[i] = "mounted" /\ stateUpdated[i])
      ~> (phase[i] # "mounted" \/ (Fresh(i) /\ returned[i] = Shown(i)))

C22_Witness ==
  \E i \in Instances :
    /\ kind = "action" /\ Fresh(i) /\ initialValue = "fb" /\ trace[i] = <<>>
    /\ lastDelivered[i] = "v2" /\ returned[i] = "v2" /\ LiveHandles(i) = {2}

BothKeyed == kind \in {"keyed", "keyedLegacy"}

\* C24: the keyed hooks never reset their local state on re-activation: an
\* effect run (cleanup included) and a render, also one that changes the
\* key to another key or to absent, leave the local state unchanged, so
\* every render returns what the last delivery, made for the old key,
\* determines (the value itself when it is non-nil) until the new
\* subscription delivers.
C24_KeyedStateSurvivesReactivation ==
  [][\A i \in Instances : BothKeyed =>
       /\ EffectStep(i) => state'[i] = state[i] /\ returned'[i] = returned[i]
       /\ (phase[i] = "mounted" /\ props'[i] # props[i]) => state'[i] = state[i]
       /\ (phase[i] = "mounted" /\ state'[i] # state[i])
            => /\ cleanup[i] > 0 /\ Live(cleanup[i])
               /\ stateUpdated'[i] /\ props'[i] = props[i] /\ subs' = subs
       /\ Fresh(i) => returned[i] = Shown(i)
       /\ (Fresh(i) /\ ~isNil(state[i])) => returned[i] = lastDelivered[i]]_vars

C24_Witness ==
  \E i \in Instances :
    /\ kind = "keyedLegacy" /\ Fresh(i) /\ ~effectPending[i]
    /\ props[i].key = "k2"
    /\ trace[i] = << Event("unsubscribe", KeyPath("k1"), <<>>, 1),
                     Event("action", "", <<"k2">>, 0),
                     Event("subscribe", KeyPath("k2"), <<>>, 2) >>
    /\ state[i] = "v1" /\ lastDelivered[i] = "v1" /\ returned[i] = "v1"

\* the step is the first render of the instance
MountStep(i) == phase[i] = "unmounted" /\ phase'[i] = "mounted"

\* C25: a hook's local state changes only inside a subscription callback:
\* a step changes it only through the instance's live handle and is no
\* render, effect run or unmount of the instance; the first render sets it
\* to the initial state whatever the store holds; an effect run, also one
\* whose action writes the store before it returns, leaves the local state
\* and the returned value unchanged and delivers nothing to the instance,
\* so the write shows in no render until a later notification.
C25_StateChangesOnlyInCallback ==
  [][\A i \in Instances :
       /\ (phase[i] # "unmounted" /\ state'[i] # state[i])
            => /\ phase[i] = "mounted" /\ cleanup[i] > 0 /\ Live(cleanup[i])
               /\ ~OwnStep(i) /\ stateUpdated'[i]
       /\ MountStep(i)
            => /\ state'[i] = IF kind \in {"plain", "action"} /\ ~isUndefined(initialValue)
                              THEN initialValue ELSE NULL
               /\ lastDelivered'[i] = lastDelivered[i]
       /\ EffectStep(i)
            => /\ state'[i] = state[i] /\ returned'[i] = returned[i]
               /\ lastDelivered'[i] = lastDelivered[i]
               /\ stateUpdated'[i] = stateUpdated[i]
       /\ Fresh(i) => returned[i] = Shown(i)]_vars

C25_Witness ==
  \E i \in Instances :
    /\ kind = "action" /\ actionWrites = "sync" /\ initialValue = "fb"
    /\ Fresh(i) /\ ~effectPending[i] /\ trace[i] = <<>>
    /\ actionCalls[i] = 1 /\ LiveHandles(i) = {1}
    /\ lastDelivered[i] = NONE /\ state[i] = "fb" /\ returned[i] = "fb"

\* C26: the action-bound hook has no stale-result guard: when an in-flight
\* call of the action resolves and writes property, the mounted instance's
\* live subscription delivers the result and the hook takes it as its
\* value, whether or not the call's arguments are the ones of the last
\* render; so a state is reachable (the witness) in which the hook, last
\* rendered with a2, returns the result of the superseded call, which
\* resolved after the call made with a2.
C26_NoStaleResultGuard ==
  [][\A i \in Instances : kind = "action" =>
       /\ \A c \in inflight :
            (c \notin inflight' /\ phase[i] = "mounted"
               /\ cleanup[i] > 0 /\ Live(cleanup[i]))
              => /\ state'[i] = ResultOf(c.args)
                 /\ lastDelivered'[i] = ResultOf(c.args)
                 /\ stateUpdated'[i]
       /\ Fresh(i) => returned[i] = Shown(i)]_vars

C26_Witness ==
  \E i \in Instances :
    /\ kind = "action" /\ actionWrites = "async" /\ inflight = {}
    /\ Fresh(i) /\ props[i].actionArr = <<"a2">> /\ props[i].invokeAction
    /\ actionCalls[i] = 2 /\ LiveHandles(i) = {2}
    /\ sawValue[i] /\ lastDelivered[i] = "v1" /\ returned[i] = "v1"

\* C27: curried plain form: the effect of the mount subscribes once, to the
\* property passed on the first render; a later render of the instance with
\* another property (and any store write) calls neither unsubscribe nor
\* subscribe and schedules no effect, so the one handle, on the first
\* property, stays live until unmount, and the hook goes on returning what
\* that handle delivered.
C27_CurriedKeepsFirstProperty ==
  [][\A i \in Instances : kind = "curried" =>
       /\ EffectStep(i) =>
            /\ SubCount(subs', i) = 1
            /\ cleanup'[i] > 0
            /\ subs'[cleanup'[i]].path = props[i].key
       /\ QuietStep(i) =>
            /\ subs' = subs
            /\ cleanup'[i] = cleanup[i]
            /\ ~effectPending'[i]
            /\ LiveHandlesAfter(i) = {cleanup[i]}
       /\ Fresh(i) => returned[i] = Shown(i)]_vars

C27_Witness ==
  \E i \in Instances :
    /\ kind = "curried" /\ Fresh(i) /\ props[i].key = otherProperty
    /\ Len(subs) = 1 /\ subs[1].path = property /\ subs[1].owner = i /\ Live(1)
    /\ cleanup[i] = 1 /\ lastDelivered[i] = "v1" /\ returned[i] = "v1"

====
